---- MODULE Spec2Model ----
(***************************************************************************)
(* Model of llama_index/readers/docstring_walker/base.py, DocstringWalker. *)
(*                                                                         *)
(* Python strings are sequences of tokens (a token is a TLA+ string): a    *)
(* literal piece of an f-string is one token, a name is one token, a       *)
(* docstring is a sequence of character tokens.  Python's None, where a    *)
(* str is expected, is the reserved one-token sequence None.  An ast node  *)
(* is a record [type, name, decorator_list, docstring, body]; docstring is *)
(* what ast.get_docstring returns for the node (None, "" or a text).       *)
(***************************************************************************)
EXTENDS Integers, Sequences, FiniteSets, TLC

VARIABLES
    files,                    \* the files os.walk enumerates, in its order
    call,                     \* the method called directly, with its result
    pc,                       \* process_directory: idle, walking, returned, raised
    idx,                      \* process_directory: the file the loop is at
    llama_docs,               \* process_directory: llama_docs
    warnings,                 \* the log.warning calls: <<module_path, error>>
    visited,                  \* the paths process_directory gave to parse_module
    skip_initpy,              \* load_data argument
    fail_on_malformed_files,  \* load_data argument
    error,                    \* the exception that left process_directory
    seen                      \* every <<path, outcome>> parse_module has produced

vars == <<files, call, pc, idx, llama_docs, warnings, visited,
          skip_initpy, fail_on_malformed_files, error, seen>>

RECURSIVE process_elem(_, _), module_has_decorator_factory(_, _)
RECURSIVE JoinFrom(_, _, _), replace(_, _), LastIndexOf(_, _, _)
RECURSIVE nodes_of(_), Classes(_)
RECURSIVE reachable_functions(_), JoinNonEmpty(_, _, _), Occurrences(_, _)
RECURSIVE MarkedNames(_), HeaderNames(_)

----------------------------------------------------------------------------
(* Bounds of the input universe. *)

MaxDecorators == 2
MaxBody == 2
MaxDepth == 3
MaxFiles == 3

----------------------------------------------------------------------------
(* Python values. *)

None == <<"<None>">>
EmptyStr == <<>>
NL == "\n"

Range(s) == {s[i] : i \in 1..Len(s)}

Truthy(v) == v # None /\ v # EmptyStr

\* a or b
Or(a, b) == IF Truthy(a) THEN a ELSE b

\* sep.join(parts[i..])
JoinFrom(sep, parts, i) ==
    IF i > Len(parts) THEN EmptyStr
    ELSE IF i = Len(parts) THEN parts[i]
    ELSE parts[i] \o sep \o JoinFrom(sep, parts, i + 1)

join(sep, parts) == JoinFrom(sep, parts, 1)

\* every sequence over S of length at most n
SeqsUpTo(S, n) == UNION {[1..k -> S] : k \in 0..n}

----------------------------------------------------------------------------
(* ast nodes. *)

NoFunc == [type |-> "-", id |-> ""]

\* @name(...)
CallName(id) == [type |-> "Call", id |-> "", func |-> [type |-> "Name", id |-> id]]
\* @pkg.name(...)
CallAttribute(id) == [type |-> "Call", id |-> "", func |-> [type |-> "Attribute", id |-> id]]
\* @name(...)(...)
CallCall(id) == [type |-> "Call", id |-> "", func |-> [type |-> "Call", id |-> id]]
\* @name
BareName(id) == [type |-> "Name", id |-> id, func |-> NoFunc]
\* @pkg.name
BareAttribute(id) == [type |-> "Attribute", id |-> id, func |-> NoFunc]

Node(type, name, decorator_list, docstring, body) ==
    [type |-> type, name |-> name, decorator_list |-> decorator_list,
     docstring |-> docstring, body |-> body]

RegisterTool == <<"register_tool">>

TYPES_TO_PROCESS == {"FunctionDef", "ClassDef"}

\* ast.get_docstring(node)
get_docstring(node) == node.docstring

----------------------------------------------------------------------------
(* DocstringWalker: marker detection and rendering. *)

\* has_decorator_factory without the isinstance(decorator.func, ast.Name) test
has_decorator_factory_any_callee(func_node, decorator_factory) ==
    \E i \in 1..Len(func_node.decorator_list) :
        LET decorator == func_node.decorator_list[i] IN
            /\ decorator.type = "Call"
            /\ decorator.func.id = decorator_factory

has_decorator_factory(func_node, decorator_factory) ==
    \E i \in 1..Len(func_node.decorator_list) :
        LET decorator == func_node.decorator_list[i] IN
            /\ decorator.type = "Call"
            /\ decorator.func.type = "Name"
            /\ decorator.func.id = decorator_factory

\* module_has_decorator_factory without the recursion into classes
module_has_decorator_factory_shallow(module, decorator_factory) ==
    \E i \in 1..Len(module.body) :
        LET element == module.body[i] IN
            /\ element.type = "FunctionDef"
            /\ has_decorator_factory(element, decorator_factory)

\* module_has_decorator_factory that takes a marked class for a marked function
module_has_decorator_factory_any_decl(module, decorator_factory) ==
    \E i \in 1..Len(module.body) :
        LET element == module.body[i] IN
            \/ /\ element.type = "ClassDef"
               /\ module_has_decorator_factory(element, decorator_factory)
            \/ /\ element.type \in {"FunctionDef", "ClassDef"}
               /\ has_decorator_factory(element, decorator_factory)

module_has_decorator_factory(module, decorator_factory) ==
    \E i \in 1..Len(module.body) :
        LET element == module.body[i] IN
            \/ /\ element.type = "ClassDef"
               /\ module_has_decorator_factory(element, decorator_factory)
            \/ /\ element.type = "FunctionDef"
               /\ has_decorator_factory(element, decorator_factory)

\* process_function that qualifies the name with the parent's
process_function_qualified(func_node, parent_node) ==
    IF has_decorator_factory(func_node, RegisterTool)
    THEN LET func_name == parent_node \o <<".">> \o func_node.name
             func_docstring == Or(get_docstring(func_node), EmptyStr)
         IN  <<NL, "Function: ">> \o func_name \o <<NL>> \o func_docstring
    ELSE None

process_function(func_node, parent_node) ==
    IF has_decorator_factory(func_node, RegisterTool)
    THEN LET func_name == func_node.name
             func_docstring == Or(get_docstring(func_node), EmptyStr)
         IN  <<NL, "Function: ">> \o func_name \o <<NL>> \o func_docstring
    ELSE None

\* process_class that joins every child's result, empty ones too
process_class_unfiltered(class_node, parent_node) ==
    LET results == [i \in 1..Len(class_node.body) |->
                        Or(process_elem(class_node.body[i], class_node.name), EmptyStr)]
    IN  join(<<NL>>, results)

process_class(class_node, parent_node) ==
    LET results == [i \in 1..Len(class_node.body) |->
                        process_elem(class_node.body[i], class_node.name)]
        sub_texts == SelectSeq(results, Truthy)
    IN  join(<<NL>>, sub_texts)

process_elem(elem, parent_node) ==
    IF elem.type = "FunctionDef" THEN process_function(elem, parent_node)
    ELSE IF elem.type = "ClassDef" THEN process_class(elem, parent_node)
    ELSE EmptyStr

----------------------------------------------------------------------------
(* Paths and the file system.  A file is [root, file, readable, wellformed, *)
(* module]: the directory os.walk reports it in, its name, whether open()  *)
(* succeeds, whether ast.parse accepts its text, and the tree ast.parse    *)
(* returns for it.                                                         *)

SEP == "/"

\* os.path.join(root, file)
os_path_join(root, file) == root \o <<SEP>> \o file

LastIndexOf(s, t, i) ==
    IF i = 0 THEN 0 ELSE IF s[i] = t THEN i ELSE LastIndexOf(s, t, i - 1)

\* os.path.basename(path)
basename(path) == SubSeq(path, LastIndexOf(path, SEP, Len(path)) + 1, Len(path))

\* file.endswith(suffix), suffix a single token
endswith(file, suffix) == Len(file) > 0 /\ file[Len(file)] = suffix

\* file.replace(old, ""), old a single token
replace(file, old) ==
    IF file = <<>> THEN <<>>
    ELSE IF Head(file) = old THEN replace(Tail(file), old)
    ELSE <<Head(file)>> \o replace(Tail(file), old)

path_of(f) == os_path_join(f.root, f.file)

NoModule == Node("Module", None, <<>>, None, <<>>)

Returned(v) == [raised |-> "", value |-> v]
Raised(e) == [raised |-> e, value |-> NoModule]

\* read_module_text that reads nothing from a file the walk has read before
read_module_text_consumed(path) ==
    IF \E i \in 1..Len(files) : path_of(files[i]) = path /\ files[i].readable
    THEN LET i == CHOOSE i \in 1..Len(files) : path_of(files[i]) = path
         IN  IF path \in Range(visited)
             THEN [raised |-> "", value |-> [wellformed |-> TRUE, module |-> NoModule]]
             ELSE [raised |-> "", value |-> [wellformed |-> files[i].wellformed,
                                             module |-> files[i].module]]
    ELSE [raised |-> "OSError", value |-> [wellformed |-> FALSE, module |-> NoModule]]

read_module_text(path) ==
    IF \E i \in 1..Len(files) : path_of(files[i]) = path /\ files[i].readable
    THEN LET i == CHOOSE i \in 1..Len(files) : path_of(files[i]) = path
         IN  [raised |-> "", value |-> [wellformed |-> files[i].wellformed,
                                        module |-> files[i].module]]
    ELSE [raised |-> "OSError", value |-> [wellformed |-> FALSE, module |-> NoModule]]

\* a parser that answers malformed text with an empty tree
ast_parse_lenient(module_text) ==
    IF module_text.wellformed THEN Returned(module_text.module)
    ELSE Returned(NoModule)

\* ast.parse(module_text)
ast_parse(module_text) ==
    IF module_text.wellformed THEN Returned(module_text.module)
    ELSE Raised("SyntaxError")

\* Document(text=..., metadata={"file_name": ...}), None, or a raised exception
Document(text, file_name) ==
    [kind |-> "Document", text |-> text, metadata |-> [file_name |-> file_name],
     error |-> ""]
ReturnNone ==
    [kind |-> "None", text |-> EmptyStr, metadata |-> [file_name |-> EmptyStr],
     error |-> ""]
Raise(e) ==
    [kind |-> "raise", text |-> EmptyStr, metadata |-> [file_name |-> EmptyStr],
     error |-> e]

\* parse_module that tests the module docstring with "is not None"
parse_module_docstring_not_none(module_name, path) ==
    LET rd == read_module_text(path) IN
    IF rd.raised # "" THEN Raise(rd.raised)
    ELSE LET pr == ast_parse(rd.value) IN
    IF pr.raised # "" THEN Raise(pr.raised)
    ELSE LET module == pr.value IN
    IF ~module_has_decorator_factory(module, RegisterTool) THEN ReturnNone
    ELSE LET module_docstring == get_docstring(module)
             header == <<"Module: ">> \o module_name \o <<" ", NL>>
             module_text ==
                 IF module_docstring # None
                 THEN header \o <<"Docstring: ">> \o module_docstring \o <<" ", NL>>
                 ELSE header
             results == [i \in 1..Len(module.body) |->
                            IF module.body[i].type \in TYPES_TO_PROCESS
                            THEN process_elem(module.body[i], module_name)
                            ELSE EmptyStr]
         IN  Document(module_text \o join(<<NL>>, SelectSeq(results, Truthy)),
                      basename(path))

parse_module(module_name, path) ==
    LET rd == read_module_text(path) IN
    IF rd.raised # "" THEN Raise(rd.raised)
    ELSE LET pr == ast_parse(rd.value) IN
    IF pr.raised # "" THEN Raise(pr.raised)
    ELSE LET module == pr.value
             has_register_tool_function ==
                 module_has_decorator_factory(module, RegisterTool)
         IN
    IF ~has_register_tool_function THEN ReturnNone
    ELSE LET module_docstring == get_docstring(module)
             header == <<"Module: ">> \o module_name \o <<" ", NL>>
             module_text ==
                 IF Truthy(module_docstring)
                 THEN header \o <<"Docstring: ">> \o module_docstring \o <<" ", NL>>
                 ELSE header
             results == [i \in 1..Len(module.body) |->
                            IF module.body[i].type \in TYPES_TO_PROCESS
                            THEN process_elem(module.body[i], module_name)
                            ELSE EmptyStr]
             sub_texts == SelectSeq(results, Truthy)
             file_name == basename(path)
         IN  Document(module_text \o join(<<NL>>, sub_texts), file_name)

----------------------------------------------------------------------------
(* The input universe. *)

Other == <<"other">>

Decorators ==
    {CallName(RegisterTool), CallName(Other), CallAttribute(RegisterTool),
     CallCall(RegisterTool), BareName(RegisterTool), BareAttribute(RegisterTool)}

\* @register_tool() def f(): "d"
Fm == Node("FunctionDef", <<"f">>, <<CallName(RegisterTool)>>, <<"d">>, <<>>)
\* @other() @register_tool() def g(): pass
Gm == Node("FunctionDef", <<"g">>, <<CallName(Other), CallName(RegisterTool)>>, None, <<>>)
\* @register_tool def h(): "e\nd"
Hu == Node("FunctionDef", <<"h">>, <<BareName(RegisterTool)>>, <<"e", NL, "d">>, <<>>)
\* @pkg.register_tool() def n(): (nested f)
Nu == Node("FunctionDef", <<"n">>, <<CallAttribute(RegisterTool)>>, None, <<Fm>>)
\* @register_tool() def m(): ""; (nested g)
Nm == Node("FunctionDef", <<"m">>, <<CallName(RegisterTool)>>, EmptyStr, <<Gm>>)
\* @register_tool() async def a(): "d"; (nested f)
Au == Node("AsyncFunctionDef", <<"a">>, <<CallName(RegisterTool)>>, <<"d">>, <<Fm>>)

Atoms == {Fm, Gm, Hu, Nu, Nm, Au}

ClassAt(d, body) ==
    IF d % 2 = 1
    THEN Node("ClassDef", <<"C">>, <<CallName(RegisterTool)>>, <<"d">>, body)
    ELSE Node("ClassDef", <<"B">>, <<>>, None, body)

\* classes whose bodies nest classes exactly d deep
Classes(d) ==
    IF d <= 1 THEN {ClassAt(1, b) : b \in SeqsUpTo(Atoms, MaxBody)}
    ELSE UNION {{ClassAt(d, <<x>>), ClassAt(d, <<x, Gm>>)} : x \in Classes(d - 1)}

AllClasses == UNION {Classes(d) : d \in 1..MaxDepth}

ModuleBodies ==
    SeqsUpTo(Atoms, MaxBody) \cup UNION {{<<x>>, <<Hu, x>>} : x \in AllClasses}

ModuleDocstrings == {None, EmptyStr, <<"s">>}

Modules ==
    {Node("Module", None, <<>>, ds, b) : ds \in ModuleDocstrings, b \in ModuleBodies}

File(root, file, readable, wellformed, module) ==
    [root |-> root, file |-> file, readable |-> readable,
     wellformed |-> wellformed, module |-> module]

ModPy == <<"mod", ".py">>
InitPy == <<"__init__", ".py">>

SingleFiles ==
    {File(<<"pkg">>, ModPy, TRUE, TRUE, m) : m \in Modules}
    \cup {File(<<"pkg">>, ModPy, TRUE, FALSE, NoModule),
          File(<<"pkg">>, ModPy, FALSE, TRUE, NoModule)}

ModuleNames == {<<"mod">>, <<"x">>}
ParentNames == {<<"mod">>, <<"C">>}

nodes_of(n) == {n} \cup UNION {nodes_of(n.body[i]) : i \in 1..Len(n.body)}

DecoratedNodes ==
    {Node(t, <<"f">>, ds, None, b) :
        t \in {"FunctionDef", "ClassDef", "AsyncFunctionDef"},
        ds \in SeqsUpTo(Decorators, MaxDecorators),
        b \in {<<>>, <<Fm>>}}

----------------------------------------------------------------------------
(* State. *)

NoCall ==
    [op |-> "none", arg |-> NoModule, name |-> EmptyStr, path |-> EmptyStr,
     flag |-> FALSE, text |-> EmptyStr, doc |-> ReturnNone]

InitWith(fs) ==
    /\ files = fs
    /\ call = NoCall
    /\ pc = "idle"
    /\ idx = 0
    /\ llama_docs = <<>>
    /\ warnings = <<>>
    /\ visited = <<>>
    /\ skip_initpy = TRUE
    /\ fail_on_malformed_files = FALSE
    /\ error = ""
    /\ seen = {}

walk_vars == <<pc, idx, llama_docs, warnings, visited, skip_initpy,
               fail_on_malformed_files, error, seen>>

----------------------------------------------------------------------------
(* Direct calls of the methods, one per behaviour. *)

CallHasDecoratorFactory ==
    /\ call.op = "none"
    /\ \E func_node \in DecoratedNodes, decorator_factory \in {RegisterTool, Other} :
          call' = [NoCall EXCEPT !.op = "has_decorator_factory", !.arg = func_node,
                                 !.name = decorator_factory,
                                 !.flag = has_decorator_factory(func_node, decorator_factory)]
    /\ UNCHANGED <<files, walk_vars>>

CallModuleHasDecoratorFactory ==
    /\ call.op = "none"
    /\ \E i \in 1..Len(files) :
        \E module \in {n \in nodes_of(files[i].module) : n.type \in {"Module", "ClassDef"}} :
          call' = [NoCall EXCEPT !.op = "module_has_decorator_factory", !.arg = module,
                                 !.name = RegisterTool,
                                 !.flag = module_has_decorator_factory(module, RegisterTool)]
    /\ UNCHANGED <<files, walk_vars>>

CallProcessElem ==
    /\ call.op = "none"
    /\ \E i \in 1..Len(files) :
        \E elem \in nodes_of(files[i].module) \ {files[i].module}, parent_node \in ParentNames :
          call' = [NoCall EXCEPT !.op = "process_elem", !.arg = elem,
                                 !.name = parent_node,
                                 !.text = process_elem(elem, parent_node)]
    /\ UNCHANGED <<files, walk_vars>>

CallParseModule ==
    /\ call.op = "none"
    /\ \E i \in 1..Len(files), module_name \in ModuleNames :
          call' = [NoCall EXCEPT !.op = "parse_module", !.name = module_name,
                                 !.path = path_of(files[i]),
                                 !.doc = parse_module(module_name, path_of(files[i]))]
    /\ UNCHANGED <<files, walk_vars>>

----------------------------------------------------------------------------
(* load_data / process_directory: one step per file os.walk enumerates. *)

\* scenario A: "desc"; marked f; unmarked g
ModuleA == Node("Module", None, <<>>, <<"s">>, <<Fm, Hu>>)
\* scenario B: class C with marked method g (no docstring) and unmarked h
ModuleB == Node("Module", None, <<>>, None, <<ClassAt(1, <<Gm, Hu>>)>>)
\* no marked declaration anywhere the gate looks
ModulePlain == Node("Module", None, <<>>, <<"s">>, <<Hu, Nu>>)

\* [file, readable, wellformed, module] of the files a directory may hold
DirEntries ==
    {[file |-> ModPy, readable |-> TRUE, wellformed |-> TRUE, module |-> ModuleA],
     [file |-> <<"plain", ".py">>, readable |-> TRUE, wellformed |-> TRUE, module |-> ModulePlain],
     [file |-> <<"bad", ".py">>, readable |-> TRUE, wellformed |-> FALSE, module |-> NoModule],
     [file |-> <<"gone", ".py">>, readable |-> FALSE, wellformed |-> TRUE, module |-> NoModule],
     [file |-> InitPy, readable |-> TRUE, wellformed |-> TRUE, module |-> ModuleB],
     [file |-> <<"notes", ".py", "c">>, readable |-> TRUE, wellformed |-> FALSE, module |-> NoModule]}

\* the i-th file os.walk yields lies in directory d<i>
Walks ==
    {[i \in 1..Len(es) |->
        File(<<"d", ToString(i)>>, es[i].file, es[i].readable, es[i].wellformed, es[i].module)] :
        es \in SeqsUpTo(DirEntries, MaxFiles)}

LoadData ==
    /\ pc = "idle"
    /\ \E skip \in BOOLEAN, fail \in BOOLEAN :
          /\ skip_initpy' = skip
          /\ fail_on_malformed_files' = fail
    /\ pc' = "walking"
    /\ idx' = 1
    /\ llama_docs' = <<>>
    /\ UNCHANGED <<files, call, warnings, visited, error, seen>>

InLoop == pc = "walking" /\ idx <= Len(files)

Skipped(file) ==
    \/ ~endswith(file, ".py")
    \/ skip_initpy /\ file = InitPy

module_name_of(file) == replace(file, ".py")

Parsed == parse_module(module_name_of(files[idx].file), path_of(files[idx]))

Note(doc) ==
    /\ visited' = Append(visited, path_of(files[idx]))
    /\ seen' = seen \cup {<<path_of(files[idx]), doc>>}

SkipFile ==
    /\ InLoop
    /\ Skipped(files[idx].file)
    /\ idx' = idx + 1
    /\ UNCHANGED <<files, call, pc, llama_docs, warnings, visited, skip_initpy,
                   fail_on_malformed_files, error, seen>>

AppendDocument ==
    /\ InLoop
    /\ ~Skipped(files[idx].file)
    /\ Parsed.kind = "Document"
    /\ llama_docs' = Append(llama_docs, Parsed)
    /\ Note(Parsed)
    /\ idx' = idx + 1
    /\ UNCHANGED <<files, call, pc, warnings, skip_initpy, fail_on_malformed_files, error>>

SkipModule ==
    /\ InLoop
    /\ ~Skipped(files[idx].file)
    /\ Parsed.kind = "None"
    /\ Note(Parsed)
    /\ idx' = idx + 1
    /\ UNCHANGED <<files, call, pc, llama_docs, warnings, skip_initpy,
                   fail_on_malformed_files, error>>

\* a handler that ends the walk at the first failing file
WarnMalformedAbort ==
    /\ InLoop
    /\ ~Skipped(files[idx].file)
    /\ Parsed.kind = "raise"
    /\ ~fail_on_malformed_files
    /\ warnings' = Append(warnings, <<path_of(files[idx]), Parsed.error>>)
    /\ Note(Parsed)
    /\ idx' = Len(files) + 1
    /\ UNCHANGED <<files, call, pc, llama_docs, skip_initpy, fail_on_malformed_files, error>>

WarnMalformed ==
    /\ InLoop
    /\ ~Skipped(files[idx].file)
    /\ Parsed.kind = "raise"
    /\ ~fail_on_malformed_files
    /\ warnings' = Append(warnings, <<path_of(files[idx]), Parsed.error>>)
    /\ Note(Parsed)
    /\ idx' = idx + 1
    /\ UNCHANGED <<files, call, pc, llama_docs, skip_initpy, fail_on_malformed_files, error>>

RaiseMalformed ==
    /\ InLoop
    /\ ~Skipped(files[idx].file)
    /\ Parsed.kind = "raise"
    /\ fail_on_malformed_files
    /\ error' = Parsed.error
    /\ pc' = "raised"
    /\ Note(Parsed)
    /\ UNCHANGED <<files, call, idx, llama_docs, warnings, skip_initpy,
                   fail_on_malformed_files>>

ReturnDocs ==
    /\ pc = "walking"
    /\ idx > Len(files)
    /\ pc' = "returned"
    /\ UNCHANGED <<files, call, idx, llama_docs, warnings, visited, skip_initpy,
                   fail_on_malformed_files, error, seen>>

\* parse_module called on one of the files by another user of the same walker,
\* once per behaviour, before, during or after the walk
ParseModule ==
    /\ call.op = "none"
    /\ \E i \in 1..Len(files) :
        LET module_name == module_name_of(files[i].file)
            path == path_of(files[i])
        IN  /\ call' = [NoCall EXCEPT !.op = "parse_module", !.path = path]
            /\ seen' = seen \cup {<<path, parse_module(module_name, path)>>}
    /\ UNCHANGED <<files, pc, idx, llama_docs, warnings, visited, skip_initpy,
                   fail_on_malformed_files, error>>

WalkStep ==
    SkipFile \/ AppendDocument \/ SkipModule \/ WarnMalformed \/ RaiseMalformed \/ ReturnDocs

InitWalk == \E fs \in Walks : InitWith(fs)
NextWalk == LoadData \/ WalkStep \/ ParseModule
SpecWalk == InitWalk /\ [][NextWalk]_vars

InitMarker == InitWith(<<>>)
NextMarker == CallHasDecoratorFactory
SpecMarker == InitMarker /\ [][NextMarker]_vars

Init == \E f \in SingleFiles : InitWith(<<f>>)
Next == CallModuleHasDecoratorFactory \/ CallProcessElem \/ CallParseModule
Spec == Init /\ [][Next]_vars

----------------------------------------------------------------------------
(* Vocabulary of the properties. *)

IsFunction(n) == n.type = "FunctionDef"
IsClass(n) == n.type = "ClassDef"

\* the Function declarations a container reaches through zero or more nested
\* Class bodies
reachable_functions(container) ==
    {container.body[i] : i \in {j \in 1..Len(container.body) : IsFunction(container.body[j])}}
    \cup UNION {reachable_functions(container.body[i]) :
                    i \in {j \in 1..Len(container.body) : IsClass(container.body[j])}}

NonEmpty(t) == t # None /\ Len(t) > 0

\* the fragments of frags[i..] that are non-empty, each on a line of its own
\* after acc
JoinNonEmpty(frags, i, acc) ==
    IF i > Len(frags) THEN acc
    ELSE IF ~NonEmpty(frags[i]) THEN JoinNonEmpty(frags, i + 1, acc)
    ELSE IF acc = <<>> THEN JoinNonEmpty(frags, i + 1, frags[i])
    ELSE JoinNonEmpty(frags, i + 1, acc \o <<NL>> \o frags[i])

ChildFragments(node, parent) ==
    [i \in 1..Len(node.body) |-> process_elem(node.body[i], parent)]

\* how many times token t occurs in text
Occurrences(t, text) ==
    IF text = <<>> THEN 0
    ELSE (IF Head(text) = t THEN 1 ELSE 0) + Occurrences(t, Tail(text))

DocstringOrEmpty(node) == IF node.docstring = None THEN <<>> ELSE node.docstring

TopLevelFragments(module, module_name) ==
    [i \in 1..Len(module.body) |->
        IF IsFunction(module.body[i]) \/ IsClass(module.body[i])
        THEN process_elem(module.body[i], module_name)
        ELSE <<>>]

DocstringLine(module) ==
    IF NonEmpty(module.docstring) THEN <<"Docstring: ">> \o module.docstring \o <<" ", NL>>
    ELSE <<>>

HiddenNames(module) ==
    {n.name[1] : n \in {x \in nodes_of(module) :
        \/ IsClass(x)
        \/ x.type = "AsyncFunctionDef"
        \/ IsFunction(x) /\ CallName(RegisterTool) \notin Range(x.decorator_list)}}

\* the names of the marked functions a container reaches through nested
\* classes, in source order
MarkedNames(container) ==
    LET per == [i \in 1..Len(container.body) |->
                  LET n == container.body[i] IN
                  IF IsFunction(n) /\ CallName(RegisterTool) \in Range(n.decorator_list)
                  THEN n.name
                  ELSE IF IsClass(n) THEN MarkedNames(n)
                  ELSE <<>>]
    IN  JoinFrom(<<>>, per, 1)

\* the names the "Function: " blocks of a text carry: the token after each
\* "Function: " token
HeaderNames(text) ==
    IF Len(text) < 2 THEN <<>>
    ELSE IF Head(text) = "Function: " THEN <<text[2]>> \o HeaderNames(Tail(text))
    ELSE HeaderNames(Tail(text))

----------------------------------------------------------------------------
(* C7: has_decorator_factory(node, name) is true exactly when the node's own *)
(* decorator list holds a call whose callee is the bare name `name`; a bare  *)
(* name, an attribute (called or not) and a call of another name never      *)
(* match, wherever they stand, and the node's body is not looked at.         *)
C7_HasMarkerIffOwnCallOfBareName ==
    call.op = "has_decorator_factory" =>
        /\ call.flag <=> CallName(call.name) \in Range(call.arg.decorator_list)
        /\ Range(call.arg.decorator_list) \subseteq
                {BareName(call.name), BareAttribute(call.name), CallAttribute(call.name),
                 CallCall(call.name), CallName(IF call.name = Other THEN RegisterTool ELSE Other)}
            => ~call.flag

C7_Witness ==
    /\ call.op = "has_decorator_factory"
    /\ call.name = RegisterTool
    /\ call.arg.decorator_list = <<CallAttribute(RegisterTool), CallName(RegisterTool)>>
    /\ call.flag

(* C3: module_has_decorator_factory(container, name) is true exactly when a  *)
(* Function reachable through nested Class bodies is directly marked: false  *)
(* on an empty body, false when the marker sits only on classes or inside a  *)
(* function's body.                                                          *)
C3_ContainsMarkerIffReachableMarkedFunction ==
    call.op = "module_has_decorator_factory" =>
        /\ call.flag <=>
              \E f \in reachable_functions(call.arg) : has_decorator_factory(f, call.name)
        /\ call.arg.body = <<>> => ~call.flag
        /\ (\A i \in 1..Len(call.arg.body) : call.arg.body[i] \in {Nu, Au, Hu, ClassAt(1, <<>>)})
              => ~call.flag

C3_Witness ==
    /\ call.op = "module_has_decorator_factory"
    /\ call.arg = Node("Module", None, <<>>, None,
                       <<ClassAt(3, <<ClassAt(2, <<ClassAt(1, <<Hu, Fm>>)>>)>>)>>)
    /\ call.flag

(* C4: a Function without a register_tool marker renders to the empty string. *)
C4_UnmarkedFunctionRendersEmptyString ==
    (/\ call.op = "process_elem"
     /\ IsFunction(call.arg)
     /\ ~has_decorator_factory(call.arg, RegisterTool))
        => call.text = EmptyStr

(* C5: a directly marked Function renders to a newline, "Function: <name>", *)
(* a newline and its docstring ("" when it has none): one "Function:" line, *)
(* whatever the parent name, and nothing of its body.                       *)
C5_MarkedFunctionRendersNameAndDocstring ==
    (/\ call.op = "process_elem"
     /\ IsFunction(call.arg)
     /\ CallName(RegisterTool) \in Range(call.arg.decorator_list))
        => /\ call.text = <<NL, "Function: ">> \o call.arg.name \o <<NL>>
                              \o DocstringOrEmpty(call.arg)
           /\ Occurrences("Function: ", call.text) = 1
           /\ \A parent \in ParentNames : process_elem(call.arg, parent) = call.text

C5_Witness ==
    /\ call.op = "process_elem"
    /\ call.arg = Nm
    /\ call.name = <<"C">>
    /\ call.text = <<NL, "Function: ", "m", NL>>

(* C6: a Class renders to its children's non-empty fragments, in body order, *)
(* one newline between two of them and none for an empty fragment; to the    *)
(* empty string when there is none; the same whatever the class's own name,  *)
(* decorators and docstring.                                                 *)
C6_ClassRendersJoinOfChildFragments ==
    (call.op = "process_elem" /\ IsClass(call.arg)) =>
        /\ call.text = JoinNonEmpty(ChildFragments(call.arg, call.arg.name), 1, <<>>)
        /\ (\A i \in 1..Len(call.arg.body) :
                ~NonEmpty(process_elem(call.arg.body[i], call.arg.name)))
              => call.text = EmptyStr
        /\ \A name \in {<<"B">>, <<"C">>}, ds \in {<<>>, <<CallName(RegisterTool)>>},
              doc \in {None, <<"d">>} :
                process_elem(Node("ClassDef", name, ds, doc, call.arg.body), call.name)
                    = call.text

C6_Witness ==
    /\ call.op = "process_elem"
    /\ call.arg = ClassAt(2, <<ClassAt(1, <<Nu, Hu>>), Gm>>)
    /\ call.text = <<NL, "Function: ", "g", NL>>

(* C1: the document parse_module returns for a qualifying module has the    *)
(* text "Module: <module_name> \n", then "Docstring: <docstring> \n" exactly *)
(* when the module docstring is non-empty, then the non-empty fragments of   *)
(* the top-level Function and Class declarations, in body order, joined by   *)
(* newlines; its metadata is the file's base name; no unmarked function's    *)
(* name and no class's name occurs in the text.                              *)
C1_DocumentTextAndMetadata ==
    (call.op = "parse_module" /\ call.doc.kind = "Document") =>
        LET module == files[1].module IN
        /\ call.doc.text =
              <<"Module: ">> \o call.name \o <<" ", NL>> \o DocstringLine(module)
                \o JoinNonEmpty(TopLevelFragments(module, call.name), 1, <<>>)
        /\ Occurrences("Docstring: ", call.doc.text) = 1 <=> NonEmpty(module.docstring)
        /\ call.doc.metadata = [file_name |-> files[1].file]
        /\ HiddenNames(module) \cap Range(call.doc.text) = {}

\* scenario A of the specification
C1_Witness ==
    /\ call.op = "parse_module"
    /\ call.name = <<"mod">>
    /\ files[1].module = ModuleA
    /\ call.doc.kind = "Document"
    /\ call.doc.text = <<"Module: ", "mod", " ", NL, "Docstring: ", "s", " ", NL,
                          NL, "Function: ", "f", NL, "d">>
    /\ call.doc.metadata.file_name = <<"mod", ".py">>

(* C2: parse_module returns None exactly when the file was read and parsed   *)
(* and holds no marked function the gate reaches; a file that cannot be read *)
(* or parsed makes parse_module raise, never return.                         *)
C2_NoneIffParsedAndNotQualifying ==
    call.op = "parse_module" =>
        LET f == files[1] IN
        /\ call.doc.kind = "None" <=>
              /\ f.readable
              /\ f.wellformed
              /\ ~\E fn \in reachable_functions(f.module) :
                    CallName(RegisterTool) \in Range(fn.decorator_list)
        /\ ~f.readable => call.doc.kind = "raise" /\ call.doc.error = "OSError"
        /\ (f.readable /\ ~f.wellformed) =>
              call.doc.kind = "raise" /\ call.doc.error = "SyntaxError"
        /\ call.doc.kind = "raise" => ~(f.readable /\ f.wellformed)

C2_Witness ==
    /\ call.op = "parse_module"
    /\ files[1].readable /\ files[1].wellformed
    /\ files[1].module.body = <<Nu, Au>>
    /\ call.doc.kind = "None"

(* C10: the gate and the renderer agree: the module qualifies exactly when a *)
(* top-level declaration renders non-empty; so a returned document holds at  *)
(* least one "Function:" block, and its blocks name the marked functions     *)
(* reachable through class nesting, once each, in source order.              *)
C10_GateAgreesWithRenderer ==
    (call.op = "parse_module" /\ files[1].readable /\ files[1].wellformed) =>
        LET module == files[1].module IN
        /\ module_has_decorator_factory(module, RegisterTool) <=>
              \E i \in 1..Len(module.body) :
                  NonEmpty(process_elem(module.body[i], call.name))
        /\ call.doc.kind = "Document" =>
              /\ Occurrences("Function: ", call.doc.text) >= 1
              /\ Occurrences("Function: ", call.doc.text) = Len(MarkedNames(module))
              /\ HeaderNames(call.doc.text) = MarkedNames(module)

C10_Witness ==
    /\ call.op = "parse_module"
    /\ files[1].module.body = <<Hu, ClassAt(2, <<ClassAt(1, <<Fm, Nm>>), Gm>>)>>
    /\ call.doc.kind = "Document"
    /\ HeaderNames(call.doc.text) = <<"f", "m", "g">>

----------------------------------------------------------------------------
(* The directory walk. *)

IsPython(file) == Len(file) > 0 /\ file[Len(file)] = ".py"

\* process_directory hands files[i] to parse_module
Handed(i) == IsPython(files[i].file) /\ ~(skip_initpy /\ files[i].file = <<"__init__", ".py">>)

WellFormed(i) == files[i].readable /\ files[i].wellformed

Fails(i) == Handed(i) /\ ~WellFormed(i)

Qualifies(i) ==
    \E fn \in reachable_functions(files[i].module) :
        CallName(RegisterTool) \in Range(fn.decorator_list)

Yields(i) == Handed(i) /\ WellFormed(i) /\ Qualifies(i)

Indices(n) == [i \in 1..n |-> i]

PathsOf(is) == [k \in 1..Len(is) |-> files[is[k]].root \o <<"/">> \o files[is[k]].file]

(* C8: under the lenient policy a failing file is skipped with a warning and *)
(* the walk goes on to the end, returning one document per well-formed       *)
(* qualifying .py file (no __init__.py when skip_initpy), in enumeration      *)
(* order, and none for any other file; under the strict policy the first     *)
(* failing file's error leaves process_directory, no later file is handed to *)
(* parse_module and nothing is returned.                                     *)
C8_WalkPolicies ==
    LET n == Len(files)
        yielding == SelectSeq(Indices(n), Yields)
    IN
    /\ pc = "returned" =>
          /\ Len(llama_docs) = Len(yielding)
          /\ \A k \in 1..Len(yielding) :
                /\ llama_docs[k].kind = "Document"
                /\ llama_docs[k].metadata.file_name = files[yielding[k]].file
                /\ HeaderNames(llama_docs[k].text) = MarkedNames(files[yielding[k]].module)
          /\ visited = PathsOf(SelectSeq(Indices(n), Handed))
          /\ [k \in 1..Len(warnings) |-> warnings[k][1]] = PathsOf(SelectSeq(Indices(n), Fails))
          /\ fail_on_malformed_files => \A i \in 1..n : ~Fails(i)
    /\ pc = "raised" =>
          /\ fail_on_malformed_files
          /\ Fails(idx)
          /\ \A j \in 1..(idx - 1) : ~Fails(j)
          /\ visited = PathsOf(SelectSeq(Indices(idx), Handed))
          /\ error = IF files[idx].readable THEN "SyntaxError" ELSE "OSError"
          /\ warnings = <<>>
    /\ ~fail_on_malformed_files => pc # "raised"
    /\ pc = "walking" => ENABLED WalkStep

C8_Witness ==
    /\ pc = "returned"
    /\ ~fail_on_malformed_files
    /\ skip_initpy
    /\ [i \in 1..Len(files) |-> files[i].file] = <<<<"bad", ".py">>, <<"__init__", ".py">>, ModPy>>
    /\ Len(warnings) = 1
    /\ Len(llama_docs) = 1
    /\ llama_docs[1].metadata.file_name = ModPy

====
